---------------------------- MODULE Spec2Model ----------------------------
(***************************************************************************)
(* Model of the LM Studio / Kokoro chatbot.                                *)
(*                                                                         *)
(*   src/lmstudio_kokoro_speak_stream.py : the incremental sentence        *)
(*       chunker (split_into_speakable_chunks) and the streaming pipeline  *)
(*       producer -> tts_q -> tts_worker -> audio_q -> audio_player.       *)
(*   src/server.py : synthesize_audio with the per-language pipeline cache *)
(*       and the process-wide tts_lock.                                    *)
(*                                                                         *)
(* A Python str is the sequence of the Unicode code points of its          *)
(* characters.                                                             *)
(***************************************************************************)
EXTENDS Naturals, Sequences, FiniteSets

(***************************************************************************)
(* Bounds of the model.                                                    *)
(***************************************************************************)
\* longest text given to the chunker in SplitSpec
MaxLen == 4

\* inputs to one run of the streaming program: user prompts and streamed
\* tokens together
MaxInputs == 4

(***************************************************************************)
(* Characters, as code points.  Whitespace holds every character that     *)
(* str.strip() removes: the characters for which str.isspace() is true.   *)
(* The texts the specifications enumerate are written over Chars, where   *)
(* Letter stands for any character that is neither whitespace nor         *)
(* sentence punctuation and Space for any whitespace other than the       *)
(* newline.                                                                *)
(***************************************************************************)
\* "a"
Letter == 97

\* " "
Space == 32

\* "."
Dot == 46

\* "!"
Bang == 33

\* "?"
Quest == 63

Punct == {Dot, Bang, Quest}

\* "\n"
Newline == 10

\* \t \n \x0b \f \r, \x1c-\x1f, " ", \x85, \xa0, U+1680, U+2000-U+200A,
\* U+2028, U+2029, U+202F, U+205F, U+3000
Whitespace ==
    (9..13) \cup (28..32) \cup {133, 160, 5760} \cup (8192..8202)
        \cup {8232, 8233, 8239, 8287, 12288}

Chars == {Letter, Space, Dot, Bang, Newline}

(***************************************************************************)
(* str.strip(): drops leading and trailing whitespace.                     *)
(***************************************************************************)
RECURSIVE LStrip(_)
LStrip(s) ==
    IF s = <<>> THEN <<>>
    ELSE IF Head(s) \in Whitespace THEN LStrip(Tail(s))
    ELSE s

RECURSIVE RStrip(_)
RStrip(s) ==
    IF s = <<>> THEN <<>>
    ELSE IF s[Len(s)] \in Whitespace THEN RStrip(SubSeq(s, 1, Len(s) - 1))
    ELSE s

Strip(s) == RStrip(LStrip(s))

(***************************************************************************)
(* SENT_END_RE = re.compile(r"([.!?]+|\n)").                               *)
(* MatchLen(s, i): length of the regex match that starts at position i     *)
(* (0 when none does): a maximal run of punctuation, or one newline.       *)
(***************************************************************************)
RECURSIVE PunctRun(_, _)
PunctRun(s, i) ==
    IF i <= Len(s) /\ s[i] \in Punct THEN 1 + PunctRun(s, i + 1) ELSE 0

\* (a variant whose pattern is [.!?]+ alone)
MatchLenPunctOnly(s, i) ==
    IF i > Len(s) THEN 0
    ELSE IF s[i] \in Punct THEN PunctRun(s, i)
    ELSE 0

MatchLen(s, i) ==
    IF i > Len(s) THEN 0
    ELSE IF s[i] \in Punct THEN PunctRun(s, i)
    ELSE IF s[i] = Newline THEN 1
    ELSE 0

\* position of the leftmost match in s, 0 when the pattern matches nowhere
FirstMatch(s) ==
    IF \E i \in 1..Len(s) : MatchLen(s, i) > 0
    THEN CHOOSE i \in 1..Len(s) :
            /\ MatchLen(s, i) > 0
            /\ \A j \in 1..(i - 1) : MatchLen(s, j) = 0
    ELSE 0

(***************************************************************************)
(* SENT_END_RE.split(buffer): with one capture group the result alternates *)
(* text, delimiter, text, ..., text and always has odd length.             *)
(***************************************************************************)
RECURSIVE ReSplit(_)
ReSplit(s) ==
    LET i == FirstMatch(s) IN
    IF i = 0 THEN <<s>>
    ELSE LET n == MatchLen(s, i) IN
         <<SubSeq(s, 1, i - 1), SubSeq(s, i, i + n - 1)>>
            \o ReSplit(SubSeq(s, i + n, Len(s)))

(***************************************************************************)
(* The loop of split_into_speakable_chunks over the pairs                  *)
(* (parts[i], parts[i+1]), i = 0, 2, ... < len(parts) - 1 (0-based):       *)
(* cur = text_part + ender, appended stripped when cur.strip() is          *)
(* non-empty.  Here i is 1-based.                                          *)
(***************************************************************************)
\* cur += text_part + ender, for each (text, delimiter) pair
RECURSIVE Pieces(_, _)
Pieces(parts, i) ==
    IF i + 1 > Len(parts) THEN <<>>
    ELSE <<parts[i] \o parts[i + 1]>> \o Pieces(parts, i + 2)

\* (a variant that appends cur untrimmed)
ChunkOfUntrimmed(cur) == IF Strip(cur) # <<>> THEN <<cur>> ELSE <<>>

\* if cur.strip(): chunks.append(cur.strip())
ChunkOf(cur) == IF Strip(cur) # <<>> THEN <<Strip(cur)>> ELSE <<>>

RECURSIVE ChunkLoop(_)
ChunkLoop(pieces) ==
    IF pieces = <<>> THEN <<>>
    ELSE ChunkOf(Head(pieces)) \o ChunkLoop(Tail(pieces))

\* (a variant that tests the wrong parity)
RemainderOfWrongParity(parts) ==
    IF Len(parts) % 2 = 0 THEN parts[Len(parts)] ELSE <<>>

\* if len(parts) % 2 == 1: remainder = parts[-1]
RemainderOf(parts) == IF Len(parts) % 2 = 1 THEN parts[Len(parts)] ELSE <<>>

split_into_speakable_chunks(buffer) ==
    LET parts == ReSplit(buffer) IN
    [chunks |-> ChunkLoop(Pieces(parts, 1)), remainder |-> RemainderOf(parts)]

(***************************************************************************)
(* One token of the producer loop of main():                               *)
(*     buffer += token                                                     *)
(*     chunks, buffer = split_into_speakable_chunks(buffer)                *)
(* The chunks are what the loop then puts on tts_q, in order.              *)
(***************************************************************************)
\* (a variant that keeps the whole buffer instead of the remainder)
ProducerStepKeepBuffer(buf, token) ==
    LET r == split_into_speakable_chunks(buf \o token) IN
    [chunks |-> r.chunks, buffer |-> buf \o token]

ProducerStep(buf, token) ==
    LET r == split_into_speakable_chunks(buf \o token) IN
    [chunks |-> r.chunks, buffer |-> r.remainder]

\* (a variant that tests and puts the buffer untrimmed)
FinalFlushUntrimmed(buf) == IF buf # <<>> THEN <<buf>> ELSE <<>>

\* if buffer.strip(): tts_q.put(buffer.strip())
FinalFlush(buf) == IF Strip(buf) # <<>> THEN <<Strip(buf)>> ELSE <<>>

(***************************************************************************)
(* State.                                                                  *)
(*                                                                         *)
(* Chunker harness (SplitSpec): a text, split once as a whole and fed      *)
(* token by token through ProducerStep, for every text and every cutting   *)
(* of it into tokens.                                                      *)
(***************************************************************************)
VARIABLES
    text,       \* the whole text of the turn
    batched,    \* whether split_into_speakable_chunks(text) has been called
    batch,      \* its result
    pos,        \* number of characters of text fed so far
    cuts,       \* positions after which a token ended
    sbuf,       \* the producer's buffer
    emitted     \* chunks emitted so far by the token-by-token run

svars == <<text, batched, batch, pos, cuts, sbuf, emitted>>

(***************************************************************************)
(* Streaming program (Spec): main() with its two daemon threads.           *)
(***************************************************************************)
VARIABLES
    mpc,        \* where main() is
    messages,   \* the message history
    buffer,     \* the producer's text buffer
    full,       \* the reply received so far in this turn
    inputs,     \* prompts and tokens received so far
    tts_q,      \* queue.Queue of text chunks (None = sentinel)
    audio_q,    \* queue.Queue of audio buffers (None = sentinel)
    wpc,        \* where tts_worker is
    wtext,      \* the item tts_worker holds
    wyield,     \* segments the engine yielded in tts_worker's last call
    ppc,        \* where audio_player is
    paudio,     \* the audio audio_player holds
    alive,      \* the process is running (daemon threads die with it)
    enq,        \* history: every item put on tts_q, in order
    aenq,       \* history: every item put on audio_q, in order
    played,     \* history: chunk ids whose audio was played to completion
    failed,     \* history: chunk ids whose synthesis failed
    atSentinel, \* history: chunk ids queued when the sentinel was put on tts_q
    llm_errors  \* history: number of "[LLM error]" lines printed

pvars == <<mpc, messages, buffer, full, inputs, tts_q, audio_q, wpc, wtext,
           wyield, ppc, paudio, alive, enq, aenq, played, failed, atSentinel,
           llm_errors>>

(***************************************************************************)
(* Web server (ServerSpec): concurrent requests inside synthesize_audio.   *)
(***************************************************************************)
VARIABLES
    pipelines,  \* the cache dict: language code -> pipeline instance (0: none)
    tts_lock,   \* the request holding tts_lock (0: free)
    rpc,        \* where each request is
    rvoice,     \* resolved_voice of each request
    rlang,      \* lang_code of each request
    rattempt,   \* attempt of each request
    rpipe,      \* the local variable pipeline of each request
    rresult,    \* how each request ended
    rraised,    \* the class of the exception synthesize_audio raised
    rinput,     \* history: the voice_name and text each request was called with
    built,      \* history: language of every KPipeline constructed, in order
    rcalls,     \* history: per request, the instances its engine calls ran on
    revict,     \* history: per request, what each pop() removed (0: nothing)
    rfailat     \* history: per request, Len(built) when its attempt 0 failed

hvars == <<pipelines, tts_lock, rpc, rvoice, rlang, rattempt, rpipe, rresult,
           rraised, rinput, built, rcalls, revict, rfailat>>

(***************************************************************************)
(* Web server: the module globals set when server.py is imported.          *)
(***************************************************************************)
VARIABLES
    voice_catalog,  \* voice name -> language code
    DEFAULT_VOICE   \* the voice used when a request names none

gvars == <<voice_catalog, DEFAULT_VOICE>>

(***************************************************************************)
(* Web server (ChatSpec): one POST /api/chat request, from the payload to  *)
(* the response; its call of synthesize_audio is request ChatThread of the *)
(* variables above.                                                        *)
(***************************************************************************)
VARIABLES
    cpc,        \* where chat() is
    cin,        \* the payload: has messages, voice, model
    cmodels,    \* whether available_models() returned a model
    content,    \* the reply of the chat backend
    cresp       \* the response: status code and error

cvars == <<cpc, cin, cmodels, content, cresp>>

vars == <<svars, pvars, hvars, cvars, gvars>>

(***************************************************************************)
(* The chunker harness.                                                    *)
(***************************************************************************)
Texts == UNION {[1..n -> Chars] : n \in 0..MaxLen}

NoResult == [chunks |-> <<>>, remainder |-> <<>>]

SplitIdle ==
    /\ batched = FALSE
    /\ batch = NoResult
    /\ pos = 0
    /\ cuts = {}
    /\ sbuf = <<>>
    /\ emitted = <<>>

\* chunks, remainder = split_into_speakable_chunks(text)
SplitBatch ==
    /\ ~batched
    /\ batched' = TRUE
    /\ batch' = split_into_speakable_chunks(text)
    /\ UNCHANGED <<text, pos, cuts, sbuf, emitted>>
    /\ UNCHANGED pvars
    /\ UNCHANGED hvars
    /\ UNCHANGED cvars
    /\ UNCHANGED gvars

\* one token of k characters arrives from the stream
FeedToken ==
    \E k \in 1..(Len(text) - pos) :
        LET token == SubSeq(text, pos + 1, pos + k)
            r == ProducerStep(sbuf, token)
        IN /\ sbuf' = r.buffer
           /\ emitted' = emitted \o r.chunks
           /\ pos' = pos + k
           /\ cuts' = cuts \cup {pos + k}
           /\ UNCHANGED <<text, batched, batch>>
           /\ UNCHANGED pvars
           /\ UNCHANGED hvars
    /\ UNCHANGED cvars
    /\ UNCHANGED gvars
    /\ UNCHANGED hvars
    /\ UNCHANGED cvars
    /\ UNCHANGED gvars

(***************************************************************************)
(* The streaming program.                                                  *)
(*                                                                         *)
(* Queue items carry the chunk's sequence number (id) next to the value,   *)
(* so that histories can tell equal strings apart; none marks Python None. *)
(***************************************************************************)
NoneText == [none |-> TRUE, id |-> 0, text |-> <<>>, flush |-> FALSE]

NoneAudio == [none |-> TRUE, id |-> 0, segs |-> <<>>]

TextItem(i, c, fl) == [none |-> FALSE, id |-> i, text |-> c, flush |-> fl]

\* `x is None`
IsNone(x) == x.none

\* (a variant that puts at the front)
PutLifo(q, x) == <<x>> \o q

\* queue.Queue.put / get: first in, first out
Put(q, x) == Append(q, x)

RECURSIVE PutAll(_, _)
PutAll(q, xs) == IF xs = <<>> THEN q ELSE PutAll(Put(q, Head(xs)), Tail(xs))

\* ids of the items of a queue or history that are not None
RECURSIVE Ids(_)
Ids(q) ==
    IF q = <<>> THEN <<>>
    ELSE (IF IsNone(Head(q)) THEN <<>> ELSE <<Head(q).id>>) \o Ids(Tail(q))

Range(q) == {q[i] : i \in 1..Len(q)}

\* the chunks cs as queue items numbered after those already enqueued
RECURSIVE Numbered(_, _, _)
Numbered(cs, n, fl) ==
    IF cs = <<>> THEN <<>>
    ELSE <<TextItem(n + 1, Head(cs), fl)>> \o Numbered(Tail(cs), n + 1, fl)

\* tokens the chat backend streams (delta.content, never empty)
Tokens == {<<Letter>>, <<Dot>>, <<Space>>}

\* numbers of audio segments the engine can yield for a text
EngineYields == {1, 2}

UserMsg == [role |-> "user", content |-> <<Letter>>]

PipeInit ==
    /\ mpc = "input"
    /\ messages = <<>>
    /\ buffer = <<>>
    /\ full = <<>>
    /\ inputs = 0
    /\ tts_q = <<>>
    /\ audio_q = <<>>
    /\ wpc = "get"
    /\ wtext = NoneText
    /\ wyield = 0
    /\ ppc = "get"
    /\ paudio = NoneAudio
    /\ alive = TRUE
    /\ enq = <<>>
    /\ aenq = <<>>
    /\ played = <<>>
    /\ failed = {}
    /\ atSentinel = {}
    /\ llm_errors = 0

(***************************************************************************)
(* main(): the conversation loop (lines 93-134) and the shutdown           *)
(* (lines 136-138).                                                        *)
(***************************************************************************)
\* user = input().strip(); if not user: continue
UserEmpty ==
    /\ alive
    /\ mpc = "input"
    /\ UNCHANGED pvars
    /\ UNCHANGED hvars
    /\ UNCHANGED cvars
    /\ UNCHANGED gvars
    /\ UNCHANGED llm_errors
    /\ UNCHANGED svars
    /\ UNCHANGED hvars
    /\ UNCHANGED cvars
    /\ UNCHANGED gvars

\* a prompt: messages.append(user); buffer = ""; the try block is entered
UserPrompt ==
    /\ alive
    /\ mpc = "input"
    /\ inputs < MaxInputs
    /\ inputs' = inputs + 1
    /\ messages' = Append(messages, UserMsg)
    /\ buffer' = <<>>
    /\ mpc' = "create"
    /\ UNCHANGED <<full, tts_q, audio_q, wpc, wtext, wyield, ppc, paudio, alive,
                   enq, aenq, played, failed, atSentinel>>
    /\ UNCHANGED llm_errors
    /\ UNCHANGED svars
    /\ UNCHANGED hvars
    /\ UNCHANGED cvars
    /\ UNCHANGED gvars

\* Ctrl+C while input() waits: line 94 is outside the try block, so the
\* KeyboardInterrupt leaves main() and ends the process
InterruptAtInput ==
    /\ alive
    /\ mpc = "input"
    /\ mpc' = "raised"
    /\ alive' = FALSE
    /\ UNCHANGED <<messages, buffer, full, inputs, tts_q, audio_q, wpc,
                   wtext, wyield, ppc, paudio, enq, aenq, played, failed, atSentinel>>
    /\ UNCHANGED llm_errors
    /\ UNCHANGED svars
    /\ UNCHANGED hvars
    /\ UNCHANGED cvars
    /\ UNCHANGED gvars

\* stream = client.chat.completions.create(...); full = ""
CreateOk ==
    /\ alive
    /\ mpc = "create"
    /\ full' = <<>>
    /\ mpc' = "stream"
    /\ UNCHANGED <<messages, buffer, inputs, tts_q, audio_q, wpc, wtext, wyield,
                   ppc, paudio, alive, enq, aenq, played, failed, atSentinel>>
    /\ UNCHANGED llm_errors
    /\ UNCHANGED svars
    /\ UNCHANGED hvars
    /\ UNCHANGED cvars
    /\ UNCHANGED gvars

\* (a variant that records the part of the reply received before the error)
AfterBackendErrorPartial(msgs, reply) ==
    Append(msgs, [role |-> "assistant", content |-> reply])

\* the message history after `except Exception as e: print(...)`: line 125
\* was not reached
AfterBackendError(msgs, reply) == msgs

\* the backend fails in create() or in the stream: except Exception prints
\* and the loop goes on with the next prompt
BackendFail ==
    /\ alive
    /\ mpc \in {"create", "stream"}
    /\ messages' = AfterBackendError(messages, full)
    /\ llm_errors' = llm_errors + 1
    /\ mpc' = "input"
    /\ UNCHANGED <<buffer, full, inputs, tts_q, audio_q, wpc,
                   wtext, wyield, ppc, paudio, alive, enq, aenq, played, failed,
                   atSentinel>>
    /\ UNCHANGED svars
    /\ UNCHANGED hvars
    /\ UNCHANGED cvars
    /\ UNCHANGED gvars

\* Ctrl+C inside the try block: except KeyboardInterrupt: break
InterruptInTry ==
    /\ alive
    /\ mpc \in {"create", "stream"}
    /\ mpc' = "shutdown"
    /\ UNCHANGED <<messages, buffer, full, inputs, tts_q, audio_q, wpc,
                   wtext, wyield, ppc, paudio, alive, enq, aenq, played, failed,
                   atSentinel>>
    /\ UNCHANGED llm_errors
    /\ UNCHANGED svars
    /\ UNCHANGED hvars
    /\ UNCHANGED cvars
    /\ UNCHANGED gvars

\* one event with content: full += token; buffer += token; split; put chunks
StreamToken ==
    /\ alive
    /\ mpc = "stream"
    /\ inputs < MaxInputs
    /\ \E token \in Tokens :
          LET r == ProducerStep(buffer, token)
              items == Numbered(r.chunks, Len(enq), FALSE)
          IN /\ full' = full \o token
             /\ buffer' = r.buffer
             /\ tts_q' = PutAll(tts_q, items)
             /\ enq' = enq \o items
    /\ inputs' = inputs + 1
    /\ UNCHANGED <<mpc, messages, audio_q, wpc, wtext, wyield, ppc, paudio,
                   alive, aenq, played, failed, atSentinel>>
    /\ UNCHANGED llm_errors
    /\ UNCHANGED svars
    /\ UNCHANGED hvars
    /\ UNCHANGED cvars
    /\ UNCHANGED gvars

\* the stream ends: messages.append(assistant); the leftover is flushed
StreamEnd ==
    /\ alive
    /\ mpc = "stream"
    /\ messages' = Append(messages, [role |-> "assistant", content |-> full])
    /\ LET items == Numbered(FinalFlush(buffer), Len(enq), TRUE)
       IN /\ tts_q' = PutAll(tts_q, items)
          /\ enq' = enq \o items
    /\ mpc' = "input"
    /\ UNCHANGED <<buffer, full, inputs, audio_q, wpc, wtext, wyield, ppc, paudio,
                   alive, aenq, played, failed, atSentinel>>
    /\ UNCHANGED llm_errors
    /\ UNCHANGED svars
    /\ UNCHANGED hvars
    /\ UNCHANGED cvars
    /\ UNCHANGED gvars

\* tts_q.put(None)
MainShutdown ==
    /\ alive
    /\ mpc = "shutdown"
    /\ tts_q' = Put(tts_q, NoneText)
    /\ enq' = Append(enq, NoneText)
    /\ atSentinel' = Range(Ids(tts_q)) \cup Range(Ids(audio_q))
    /\ mpc' = "join"
    /\ UNCHANGED <<messages, buffer, full, inputs, audio_q, wpc, wtext, wyield,
                   ppc, paudio, alive, aenq, played, failed>>
    /\ UNCHANGED llm_errors
    /\ UNCHANGED svars
    /\ UNCHANGED hvars
    /\ UNCHANGED cvars
    /\ UNCHANGED gvars

\* t_tts.join(timeout=2) returns, because tts_worker ended or because the
\* two seconds passed; main() returns and the process ends, and the daemon
\* threads with it
MainJoin ==
    /\ alive
    /\ mpc = "join"
    /\ \E timeout \in BOOLEAN : timeout \/ wpc = "stopped"
    /\ mpc' = "returned"
    /\ alive' = FALSE
    /\ UNCHANGED <<messages, buffer, full, inputs, tts_q, audio_q, wpc,
                   wtext, wyield, ppc, paudio, enq, aenq, played, failed, atSentinel>>
    /\ UNCHANGED llm_errors
    /\ UNCHANGED svars
    /\ UNCHANGED hvars
    /\ UNCHANGED cvars
    /\ UNCHANGED gvars

(***************************************************************************)
(* tts_worker (lines 71-82).                                               *)
(***************************************************************************)
\* text = tts_q.get()
WorkerGet ==
    /\ alive
    /\ wpc = "get"
    /\ tts_q # <<>>
    /\ wtext' = Head(tts_q)
    /\ tts_q' = Tail(tts_q)
    /\ wpc' = "got"
    /\ UNCHANGED <<mpc, messages, buffer, full, inputs, audio_q, wyield, ppc,
                   paudio, alive, enq, aenq, played, failed, atSentinel>>
    /\ UNCHANGED llm_errors
    /\ UNCHANGED svars
    /\ UNCHANGED hvars
    /\ UNCHANGED cvars
    /\ UNCHANGED gvars

\* (a variant without the break)
AfterSentinelLoop == "get"

\* where tts_worker goes after forwarding the sentinel: break
AfterSentinel == "stopped"

\* if text is None: audio_q.put(None); break
WorkerSentinel ==
    /\ alive
    /\ wpc = "got"
    /\ IsNone(wtext)
    /\ audio_q' = Put(audio_q, NoneAudio)
    /\ aenq' = Append(aenq, NoneAudio)
    /\ wpc' = AfterSentinel
    /\ UNCHANGED <<mpc, messages, buffer, full, inputs, tts_q, wtext, wyield, ppc,
                   paudio, alive, enq, played, failed, atSentinel>>
    /\ UNCHANGED llm_errors
    /\ UNCHANGED svars
    /\ UNCHANGED hvars
    /\ UNCHANGED cvars
    /\ UNCHANGED gvars

\* out = next(pipeline(text, voice=KOKORO_VOICE)): the first segment of the
\* n >= 1 the engine yields for the text; its audio is a tensor
FirstSegment(item, n) == [none |-> FALSE, id |-> item.id, segs |-> <<1>>]

\* audio_q.put(out.audio)
WorkerSynthOk ==
    /\ alive
    /\ wpc = "got"
    /\ ~IsNone(wtext)
    /\ \E n \in EngineYields :
          /\ wyield' = n
          /\ audio_q' = Put(audio_q, FirstSegment(wtext, n))
          /\ aenq' = Append(aenq, FirstSegment(wtext, n))
    /\ wpc' = "get"
    /\ UNCHANGED <<mpc, messages, buffer, full, inputs, tts_q, wtext, ppc,
                   paudio, alive, enq, played, failed, atSentinel>>
    /\ UNCHANGED llm_errors
    /\ UNCHANGED svars
    /\ UNCHANGED hvars
    /\ UNCHANGED cvars
    /\ UNCHANGED gvars

\* (a variant in which the exception ends the thread)
AfterTtsErrorStop == "stopped"

\* where tts_worker goes after `except Exception as e: print(...)`
AfterTtsError == "get"

\* the engine raises, or yields nothing (next() raises StopIteration):
\* except Exception prints and the loop goes on
WorkerSynthFail ==
    /\ alive
    /\ wpc = "got"
    /\ ~IsNone(wtext)
    /\ failed' = failed \cup {wtext.id}
    /\ wyield' = 0
    /\ wpc' = AfterTtsError
    /\ UNCHANGED <<mpc, messages, buffer, full, inputs, tts_q, audio_q,
                   wtext, ppc, paudio, alive, enq, aenq, played, atSentinel>>
    /\ UNCHANGED llm_errors
    /\ UNCHANGED svars
    /\ UNCHANGED hvars
    /\ UNCHANGED cvars
    /\ UNCHANGED gvars

(***************************************************************************)
(* audio_player (lines 56-63).                                             *)
(***************************************************************************)
\* audio = audio_q.get(); if audio is None: break
PlayerGet ==
    /\ alive
    /\ ppc = "get"
    /\ audio_q # <<>>
    /\ paudio' = Head(audio_q)
    /\ audio_q' = Tail(audio_q)
    /\ ppc' = IF IsNone(Head(audio_q)) THEN "stopped" ELSE "play"
    /\ UNCHANGED <<mpc, messages, buffer, full, inputs, tts_q, wpc, wtext, wyield,
                   alive, enq, aenq, played, failed, atSentinel>>
    /\ UNCHANGED llm_errors
    /\ UNCHANGED svars
    /\ UNCHANGED hvars
    /\ UNCHANGED cvars
    /\ UNCHANGED gvars

\* sd.play(audio, SAMPLE_RATE, blocking=True) returns
PlayerDone ==
    /\ alive
    /\ ppc = "play"
    /\ played' = Append(played, paudio.id)
    /\ ppc' = "get"
    /\ UNCHANGED <<mpc, messages, buffer, full, inputs, tts_q, audio_q,
                   wpc, wtext, wyield, paudio, alive, enq, aenq, failed, atSentinel>>
    /\ UNCHANGED llm_errors
    /\ UNCHANGED svars
    /\ UNCHANGED hvars
    /\ UNCHANGED cvars
    /\ UNCHANGED gvars

\* sd.play raises (no output device, a stream error): audio_player has no
\* try, the exception ends the thread; the audio in hand is not played and
\* nothing is taken from audio_q any more
PlayerFail ==
    /\ alive
    /\ ppc = "play"
    /\ ppc' = "raised"
    /\ UNCHANGED <<mpc, messages, buffer, full, inputs, tts_q, audio_q,
                   wpc, wtext, wyield, paudio, alive, enq, aenq, played, failed,
                   atSentinel>>
    /\ UNCHANGED llm_errors
    /\ UNCHANGED svars
    /\ UNCHANGED hvars
    /\ UNCHANGED cvars
    /\ UNCHANGED gvars

(***************************************************************************)
(* server.py: the voice catalog, get_voice_info, get_pipeline and          *)
(* synthesize_audio, run by concurrent request threads.                    *)
(***************************************************************************)
\* the request threads of the threaded Flask server
Requests == {1, 2}

Langs == {"a", "b"}

\* voice names: "af_heart"
af_heart == <<97, 102, 95, 104, 101, 97, 114, 116>>

\* "af_nicole"
af_nicole == <<97, 102, 95, 110, 105, 99, 111, 108, 101>>

\* "bf_emma"
bf_emma == <<98, 102, 95, 101, 109, 109, 97>>

\* "zz", a name no catalog has
zz_unknown == <<122, 122>>

Entry(name, lang) == [name |-> name, lang |-> lang]

\* what VOICES.md can hold, as the table rows in file order with the
\* lang_code of their section: no file (or no row), the three voices of two
\* languages, one voice of language b
VoiceFiles ==
    { <<>>,
      <<Entry(af_heart, "a"), Entry(af_nicole, "a"), Entry(bf_emma, "b")>>,
      <<Entry(bf_emma, "b")>> }

\* os.getenv("KOKORO_LANG", "a")
KOKORO_DEFAULT_LANG == "a"

\* os.getenv("KOKORO_VOICE", "af_nicole")
EnvDefaultVoice == af_nicole

\* _parse_voice_catalog: voices[name] = {"lang": lang_code} for every row
\* (a later row of the same name overwrites an earlier one)
ParsedCatalog(file) ==
    [name \in {file[i].name : i \in 1..Len(file)} |->
        LET last == CHOOSE i \in 1..Len(file) :
                       /\ file[i].name = name
                       /\ \A j \in (i + 1)..Len(file) : file[j].name # name
        IN  file[last].lang]

\* lines 82-84: DEFAULT_VOICE is the configured voice when the catalog has
\* it, else the first voice of the catalog, else the configured voice
DefaultVoiceOf(file) ==
    IF EnvDefaultVoice \in DOMAIN ParsedCatalog(file) THEN EnvDefaultVoice
    ELSE IF file # <<>> THEN file[1].name
    ELSE EnvDefaultVoice

\* lines 81-86: the catalog after the default voice was added to an empty
\* one
CatalogOf(file) ==
    LET parsed == ParsedCatalog(file)
        dflt == DefaultVoiceOf(file)
    IN  IF dflt \in DOMAIN parsed THEN parsed
        ELSE [name \in DOMAIN parsed \cup {dflt} |->
                 IF name = dflt THEN KOKORO_DEFAULT_LANG ELSE parsed[name]]

CatalogVoices == DOMAIN voice_catalog

\* voice names a request can carry; <<>> stands for None or an empty name
RequestedVoices ==
    {<<>>, bf_emma, <<Space>> \o bf_emma \o <<Space>>, zz_unknown}

\* (a variant that falls back to the default voice for an unknown name)
ResolveVoiceOrDefault(requested) ==
    IF Strip(requested) \in CatalogVoices THEN Strip(requested)
    ELSE DEFAULT_VOICE

\* voice = (requested or DEFAULT_VOICE or "").strip()
ResolveVoice(requested) ==
    Strip(IF requested # <<>> THEN requested ELSE DEFAULT_VOICE)

\* texts a request can carry: empty (or None), whitespace only, a word
RequestTexts == {<<>>, <<Space>>, <<Letter>>}

NoInput == [voice_name |-> <<>>, text |-> <<>>]

\* the server after import, VOICES.md being one of files, before any request
ServerInit(files) ==
    /\ \E file \in files :
          /\ voice_catalog = CatalogOf(file)
          /\ DEFAULT_VOICE = DefaultVoiceOf(file)
    /\ pipelines = [l \in Langs |-> 0]
    /\ tts_lock = 0
    /\ rpc = [r \in Requests |-> "idle"]
    /\ rvoice = [r \in Requests |-> <<>>]
    /\ rlang = [r \in Requests |-> ""]
    /\ rattempt = [r \in Requests |-> 0]
    /\ rpipe = [r \in Requests |-> 0]
    /\ rresult = [r \in Requests |-> "none"]
    /\ rraised = [r \in Requests |-> "none"]
    /\ rinput = [r \in Requests |-> NoInput]
    /\ built = <<>>
    /\ rcalls = [r \in Requests |-> <<>>]
    /\ revict = [r \in Requests |-> <<>>]
    /\ rfailat = [r \in Requests |-> 0]

\* synthesize_audio(text, voice_name), lines 128-132: get_voice_info raises
\* ValueError for a voice that is not in the catalog;
\* clean_text = (text or "").strip(), and an empty clean_text raises
\* ValueError; otherwise the attempt loop is entered
SynthCall(r, requested, text_arg) ==
    /\ rpc[r] = "idle"
    /\    LET voice == ResolveVoice(requested)
              clean_text == Strip(text_arg) IN
          /\ rinput' = [rinput EXCEPT ![r] = [voice_name |-> requested,
                                              text |-> text_arg]]
          /\ IF voice \notin CatalogVoices
             THEN /\ rpc' = [rpc EXCEPT ![r] = "done"]
                  /\ rresult' = [rresult EXCEPT ![r] = "UnknownVoice"]
                  /\ rraised' = [rraised EXCEPT ![r] = "ValueError"]
                  /\ UNCHANGED <<rvoice, rlang>>
             ELSE IF clean_text = <<>>
             THEN /\ rpc' = [rpc EXCEPT ![r] = "done"]
                  /\ rresult' = [rresult EXCEPT ![r] = "NoText"]
                  /\ rraised' = [rraised EXCEPT ![r] = "ValueError"]
                  /\ rvoice' = [rvoice EXCEPT ![r] = voice]
                  /\ rlang' = [rlang EXCEPT ![r] = voice_catalog[voice]]
             ELSE /\ rpc' = [rpc EXCEPT ![r] = "lookup"]
                  /\ rresult' = rresult
                  /\ rraised' = rraised
                  /\ rvoice' = [rvoice EXCEPT ![r] = voice]
                  /\ rlang' = [rlang EXCEPT ![r] = voice_catalog[voice]]
    /\ UNCHANGED <<pipelines, tts_lock, rattempt, rpipe, built, rcalls, revict,
                   rfailat>>
    /\ UNCHANGED <<svars, pvars, gvars>>

\* a request thread enters synthesize_audio (from tts(), line 258) with
\* some voice name and some text
SynthStart(r) ==
    /\ \E requested \in RequestedVoices, text_arg \in RequestTexts :
          SynthCall(r, requested, text_arg)
    /\ UNCHANGED cvars

\* get_pipeline, line 98: pipeline = pipelines.get(lang_code)
GetPipelineLookup(r) ==
    /\ rpc[r] = "lookup"
    /\ rpipe' = [rpipe EXCEPT ![r] = pipelines[rlang[r]]]
    /\ rpc' = [rpc EXCEPT ![r] = IF pipelines[rlang[r]] = 0 THEN "construct"
                                 ELSE "acquire"]
    /\ UNCHANGED <<pipelines, tts_lock, rvoice, rlang, rattempt, rresult,
                   rinput, built, rcalls, revict, rfailat>>
    /\ UNCHANGED rraised
    /\ UNCHANGED <<svars, pvars, cvars, gvars>>

\* get_pipeline, lines 99-102: if pipeline is None:
\* pipeline = KPipeline(lang_code=lang_code, ...)
GetPipelineConstruct(r) ==
    /\ rpc[r] = "construct"
    /\ built' = Append(built, rlang[r])
    /\ rpipe' = [rpipe EXCEPT ![r] = Len(built) + 1]
    /\ rpc' = [rpc EXCEPT ![r] = "store"]
    /\ UNCHANGED <<pipelines, tts_lock, rvoice, rlang, rattempt, rresult,
                   rinput, rcalls, revict, rfailat>>
    /\ UNCHANGED rraised
    /\ UNCHANGED <<svars, pvars, cvars, gvars>>

\* classes of exception the KPipeline constructor can raise
ConstructorErrors == {"ValueError", "RuntimeError", "OSError"}

\* get_pipeline, line 100: KPipeline(...) raises (e.g. an unsupported
\* lang_code, a language pack that is not installed).  Line 136 is outside
\* the try of line 138: the exception leaves synthesize_audio as it is,
\* without pop, retry or wrapping
GetPipelineConstructFail(r) ==
    /\ rpc[r] = "construct"
    /\ rpc' = [rpc EXCEPT ![r] = "done"]
    /\ rresult' = [rresult EXCEPT ![r] = "ConstructFailed"]
    /\ \E error \in ConstructorErrors :
          rraised' = [rraised EXCEPT ![r] = error]
    /\ UNCHANGED <<pipelines, tts_lock, rvoice, rlang, rattempt, rpipe, rinput,
                   built, rcalls, revict, rfailat>>
    /\ UNCHANGED <<svars, pvars, cvars, gvars>>

\* get_pipeline, lines 103-104: pipelines[lang_code] = pipeline; return
GetPipelineStore(r) ==
    /\ rpc[r] = "store"
    /\ pipelines' = [pipelines EXCEPT ![rlang[r]] = rpipe[r]]
    /\ rpc' = [rpc EXCEPT ![r] = "acquire"]
    /\ UNCHANGED <<tts_lock, rvoice, rlang, rattempt, rpipe, rresult, rinput,
                   built, rcalls, revict, rfailat>>
    /\ UNCHANGED rraised
    /\ UNCHANGED <<svars, pvars, cvars, gvars>>

\* (a variant that does not wait for the lock)
LockFreeUnchecked == TRUE

\* whether `with tts_lock:` may be entered

LockFree == tts_lock = 0

\* with tts_lock: (line 139) entered; the engine call pipeline(clean_text,
\* voice=resolved_voice) starts on the local pipeline
LockAcquire(r) ==
    /\ rpc[r] = "acquire"
    /\ LockFree
    /\ tts_lock' = r
    /\ rcalls' = [rcalls EXCEPT ![r] = Append(@, rpipe[r])]
    /\ rpc' = [rpc EXCEPT ![r] = "engine"]
    /\ UNCHANGED <<pipelines, rvoice, rlang, rattempt, rpipe, rresult, rinput,
                   built, revict, rfailat>>
    /\ UNCHANGED rraised
    /\ UNCHANGED <<svars, pvars, cvars, gvars>>

\* the engine yielded audio: the with block is left, the wav is returned
EngineOk(r) ==
    /\ rpc[r] = "engine"
    /\ tts_lock' = 0
    /\ rpc' = [rpc EXCEPT ![r] = "done"]
    /\ rresult' = [rresult EXCEPT ![r] = "ok"]
    /\ UNCHANGED <<pipelines, rvoice, rlang, rattempt, rpipe, rinput, built,
                   rcalls, revict, rfailat>>
    /\ UNCHANGED rraised
    /\ UNCHANGED <<svars, pvars, cvars, gvars>>

\* for attempt in (0, 1): the attempts one request makes
MaxAttempts == 2

\* the engine raised, or yielded no audio (RuntimeError, line 149): the
\* with block is left by the exception, which releases the lock
EngineFail(r) ==
    /\ rpc[r] = "engine"
    /\ tts_lock' = 0
    /\ rpc' = [rpc EXCEPT ![r] = "except"]
    /\ rfailat' = [rfailat EXCEPT ![r] = IF rattempt[r] = 0 THEN Len(built)
                                         ELSE @]
    /\ UNCHANGED <<pipelines, rvoice, rlang, rattempt, rpipe, rresult, rinput,
                   built, rcalls, revict>>
    /\ UNCHANGED rraised
    /\ UNCHANGED <<svars, pvars, cvars, gvars>>

\* (a variant that leaves the entry in the cache)
AfterPopKept(cache, lang) == cache

\* pipelines.pop(lang_code, None), line 155: the cache afterwards
AfterPop(cache, lang) == [cache EXCEPT ![lang] = 0]

\* except Exception (lines 152-160): pipelines.pop(lang_code, None); on
\* attempt 0 continue, on attempt 1 raise RuntimeError
SynthExcept(r) ==
    /\ rpc[r] = "except"
    /\ pipelines' = AfterPop(pipelines, rlang[r])
    /\ revict' = [revict EXCEPT ![r] = Append(@, pipelines[rlang[r]])]
    /\ IF rattempt[r] + 1 < MaxAttempts
       THEN /\ rattempt' = [rattempt EXCEPT ![r] = @ + 1]
            /\ rpc' = [rpc EXCEPT ![r] = "lookup"]
            /\ rresult' = rresult
            /\ rraised' = rraised
       ELSE /\ rattempt' = rattempt
            /\ rpc' = [rpc EXCEPT ![r] = "done"]
            /\ rresult' = [rresult EXCEPT ![r] = "SynthesisFailed"]
            /\ rraised' = [rraised EXCEPT ![r] = "RuntimeError"]
    /\ UNCHANGED <<tts_lock, rvoice, rlang, rpipe, rinput, built, rcalls,
                   rfailat>>
    /\ UNCHANGED <<svars, pvars, cvars, gvars>>

(***************************************************************************)
(* server.py: chat(), the handler of POST /api/chat (lines 210-248), with  *)
(* resolve_model_name (lines 199-207).                                     *)
(***************************************************************************)
\* the request thread that serves the chat request
ChatThread == 1

NoPayload == [body |-> "object", temperature |-> TRUE, messages |-> FALSE,
              voice |-> <<>>, model |-> ""]

\* the request body: a JSON object, or JSON of another type (a non-empty
\* list)
Bodies == {"object", "list"}

NoResponse == [status |-> 0, error |-> "none"]

Response(status, error) == [status |-> status, error |-> error]

ChatInit ==
    /\ cpc = "idle"
    /\ cin = NoPayload
    /\ cmodels = FALSE
    /\ content = <<>>
    /\ cresp = NoResponse

\* lines 212-224: the payload is read.  payload.get on a body that is no
\* object (AttributeError) and float() on a temperature that is no number
\* (ValueError, TypeError) raise outside every try, before the messages
\* are looked at: the exception leaves chat() and the framework answers
\* 500; then no messages -> 400; get_voice_info raises ValueError -> 400
ChatReceive ==
    /\ cpc = "idle"
    /\ \E body \in Bodies, temperature_ok \in BOOLEAN,
          has_messages \in BOOLEAN, requested_voice \in RequestedVoices,
          model \in {"", "m"} :
          /\ cin' = IF body = "object"
                    THEN [body |-> body, temperature |-> temperature_ok,
                          messages |-> has_messages,
                          voice |-> requested_voice, model |-> model]
                    ELSE [NoPayload EXCEPT !.body = body]
          /\ IF body = "list" \/ ~temperature_ok
             THEN /\ cpc' = "done"
                  /\ cresp' = Response(500, "Unhandled")
             ELSE IF ~has_messages
             THEN /\ cpc' = "done"
                  /\ cresp' = Response(400, "NoMessages")
             ELSE IF ResolveVoice(requested_voice) \notin CatalogVoices
             THEN /\ cpc' = "done"
                  /\ cresp' = Response(400, "UnknownVoice")
             ELSE /\ cpc' = "model"
                  /\ cresp' = cresp
    /\ UNCHANGED <<cmodels, content>>
    /\ UNCHANGED <<svars, pvars, hvars, gvars>>

\* line 227, resolve_model_name: the requested model if there is one, else
\* the first available model; RuntimeError when there is none -> 503
ChatResolveModel ==
    /\ cpc = "model"
    /\ \E models \in BOOLEAN :
          /\ cmodels' = models
          /\ IF cin.model = "" /\ ~models
             THEN /\ cpc' = "done"
                  /\ cresp' = Response(503, "NoModel")
             ELSE /\ cpc' = "create"
                  /\ cresp' = cresp
    /\ UNCHANGED <<cin, content>>
    /\ UNCHANGED <<svars, pvars, hvars, gvars>>

\* what client.chat.completions.create can do: return a reply with text,
\* return a reply without text, raise a RuntimeError, or raise another
\* exception
BackendOutcomes == {"reply", "empty", "runtime_error", "error"}

\* lines 228-238: the backend is called; content = message.content or "";
\* except RuntimeError -> 503 (the same clause that answers
\* resolve_model_name); except Exception -> 500
ChatCreate ==
    /\ cpc = "create"
    /\ \E outcome \in BackendOutcomes :
          IF outcome = "runtime_error"
          THEN /\ cpc' = "done"
               /\ cresp' = Response(503, "BackendError")
               /\ content' = content
          ELSE IF outcome = "error"
          THEN /\ cpc' = "done"
               /\ cresp' = Response(500, "BackendError")
               /\ content' = content
          ELSE /\ cpc' = "synth"
               /\ cresp' = cresp
               /\ content' = IF outcome = "reply" THEN <<Letter>> ELSE <<>>
    /\ UNCHANGED <<cin, cmodels>>
    /\ UNCHANGED <<svars, pvars, hvars, gvars>>

\* line 241: synthesize_audio(content, resolved_voice) is entered
ChatSynthesize ==
    /\ cpc = "synth"
    /\ SynthCall(ChatThread, ResolveVoice(cin.voice), content)
    /\ cpc' = "wait"
    /\ UNCHANGED <<cin, cmodels, content, cresp>>

\* lines 240-248: the status for the way synthesize_audio ended:
\* except ValueError -> 400, except Exception -> 500, else the reply
SynthStatus(raised) ==
    IF raised = "none" THEN 200
    ELSE IF raised = "ValueError" THEN 400
    ELSE 500

\* synthesize_audio has returned or raised: the response is sent
ChatReturn ==
    /\ cpc = "wait"
    /\ rpc[ChatThread] = "done"
    /\ cpc' = "done"
    /\ cresp' = Response(SynthStatus(rraised[ChatThread]),
                         IF rresult[ChatThread] = "ok" THEN "none"
                         ELSE rresult[ChatThread])
    /\ UNCHANGED <<cin, cmodels, content>>
    /\ UNCHANGED <<svars, pvars, hvars, gvars>>

(***************************************************************************)
(* Specifications.                                                         *)
(***************************************************************************)
SplitInit ==
    text \in Texts /\ SplitIdle /\ PipeInit /\ ServerInit({<<>>}) /\ ChatInit

SplitNext == SplitBatch \/ FeedToken

SplitSpec == SplitInit /\ [][SplitNext]_vars

Init == text = <<>> /\ SplitIdle /\ PipeInit /\ ServerInit({<<>>}) /\ ChatInit

MainNext ==
    \/ UserEmpty
    \/ UserPrompt
    \/ InterruptAtInput
    \/ CreateOk
    \/ BackendFail
    \/ InterruptInTry
    \/ StreamToken
    \/ StreamEnd
    \/ MainShutdown
    \/ MainJoin

WorkerNext == WorkerGet \/ WorkerSentinel \/ WorkerSynthOk \/ WorkerSynthFail

PlayerNext == PlayerGet \/ PlayerDone \/ PlayerFail

Next == MainNext \/ WorkerNext \/ PlayerNext

Spec == Init /\ [][Next]_vars

\* the threads are scheduled, the engine and the audio device return, and
\* main() goes through its shutdown lines once it has left the loop
FairSpec ==
    /\ Spec
    /\ WF_vars(WorkerNext)
    /\ WF_vars(PlayerNext)
    /\ WF_vars(MainShutdown \/ MainJoin)

ServerSpecInit ==
    text = <<>> /\ SplitIdle /\ PipeInit /\ ServerInit(VoiceFiles) /\ ChatInit

ServerNext ==
    \E r \in Requests :
        \/ SynthStart(r)
        \/ GetPipelineLookup(r)
        \/ GetPipelineConstruct(r)
        \/ GetPipelineConstructFail(r)
        \/ GetPipelineStore(r)
        \/ LockAcquire(r)
        \/ EngineOk(r)
        \/ EngineFail(r)
        \/ SynthExcept(r)

ServerSpec == ServerSpecInit /\ [][ServerNext]_vars

\* one chat request: the handler's own steps and the steps of its thread
\* inside synthesize_audio
ChatNext ==
    \/ ChatReceive
    \/ ChatResolveModel
    \/ ChatCreate
    \/ ChatSynthesize
    \/ GetPipelineLookup(ChatThread)
    \/ GetPipelineConstruct(ChatThread)
    \/ GetPipelineConstructFail(ChatThread)
    \/ GetPipelineStore(ChatThread)
    \/ LockAcquire(ChatThread)
    \/ EngineOk(ChatThread)
    \/ EngineFail(ChatThread)
    \/ SynthExcept(ChatThread)
    \/ ChatReturn

ChatSpec == ServerSpecInit /\ [][ChatNext]_vars

(***************************************************************************)
(* Properties of the chunker (checked under SplitSpec).                    *)
(***************************************************************************)
RECURSIVE Concat(_)
Concat(ss) == IF ss = <<>> THEN <<>> ELSE Head(ss) \o Concat(Tail(ss))

AllWhitespace(s) == \A i \in 1..Len(s) : s[i] \in Whitespace

IsPrefix(p, s) == Len(p) <= Len(s) /\ SubSeq(s, 1, Len(p)) = p

Boundary == Punct \cup {Newline}

\* B is chunks[1], chunks[2], ..., rem in this order, with nothing but
\* whitespace before each chunk and between the last chunk and rem (where
\* it ends with the newline that closed the last piece)
RECURSIVE Reconstructs(_, _, _)
Reconstructs(B, chunks, rem) ==
    IF chunks = <<>>
    THEN \E k \in 0..Len(B) :
            /\ AllWhitespace(SubSeq(B, 1, k))
            /\ SubSeq(B, k + 1, Len(B)) = rem
            /\ (k > 0 => B[k] = Newline)
    ELSE LET b == LStrip(B)
             c == Head(chunks)
         IN /\ IsPrefix(c, b)
            /\ Reconstructs(SubSeq(b, Len(c) + 1, Len(b)), Tail(chunks), rem)

\* C7: split_into_speakable_chunks is lossless: the chunks in order and then
\* the remainder are the buffer again, up to the whitespace trimmed around
\* each chunk (nothing but whitespace lies between consecutive chunks, and
\* every chunk is non-empty and trimmed).
C7_SplitLossless ==
    batched =>
        /\ Reconstructs(text, batch.chunks, batch.remainder)
        /\ \A k \in 1..Len(batch.chunks) :
              /\ batch.chunks[k] # <<>>
              /\ Strip(batch.chunks[k]) = batch.chunks[k]

\* a text with two chunks, whitespace trimmed between them, and a remainder
C7_Witness ==
    /\ batched
    /\ Len(batch.chunks) = 2
    /\ batch.remainder # <<>>
    /\ Len(Concat(batch.chunks)) + Len(batch.remainder) < Len(text)

\* a token boundary falls inside a run of sentence punctuation
CutInsidePunctRun ==
    \E p \in cuts : p < Len(text) /\ text[p] \in Punct /\ text[p + 1] \in Punct

\* C8 as stated: fed token by token, the emitted chunks and the final
\* remainder are the chunks and the remainder of one call on the whole text.
C8_IncrementalEqualsBatch ==
    (batched /\ pos = Len(text)) =>
        /\ emitted = batch.chunks
        /\ sbuf = batch.remainder

\* C8 amended: the characters of all emitted chunks followed by the final
\* remainder are those of the batch chunks followed by the batch remainder,
\* and the remainders are equal; the chunk sequences themselves are equal
\* unless a token boundary fell inside a run of '.', '!', '?' (that run is
\* then emitted in pieces).  At every moment the emitted chunks and the
\* buffer hold the text fed so far once: nothing is emitted twice.
C8_IncrementalAgreesWithBatch ==
    /\ Reconstructs(SubSeq(text, 1, pos), emitted, sbuf)
    /\ (batched /\ pos = Len(text)) =>
          /\ Concat(emitted) \o sbuf = Concat(batch.chunks) \o batch.remainder
          /\ sbuf = batch.remainder
          /\ (~CutInsidePunctRun => emitted = batch.chunks)

\* a text cut inside "..", so that the chunk sequences differ
C8_Witness ==
    /\ batched
    /\ pos = Len(text)
    /\ CutInsidePunctRun
    /\ emitted # batch.chunks
    /\ Len(emitted) >= 2

\* the raw pieces (text + delimiter) of the text fed so far
RawPieces(s) == Pieces(ReSplit(s), 1)

IsSeqElem(x, ss) == \E i \in 1..Len(ss) : ss[i] = x

EndsWithBoundary(c) == c # <<>> /\ c[Len(c)] \in Boundary

\* C9 as stated: every chunk the chunker returns, and so every chunk the
\* producer enqueues before the final flush, ends with '.', '!', '?' or a
\* newline.
C9_ChunksEndWithBoundary ==
    /\ batched => \A k \in 1..Len(batch.chunks) : EndsWithBoundary(batch.chunks[k])
    /\ \A k \in 1..Len(emitted) : EndsWithBoundary(emitted[k])

\* a chunk that ends with '.', '!' or '?', or that is a line cut at its
\* newline, the newline being trimmed off
PunctOrTrimmedLine(c, pieces) ==
    /\ c # <<>>
    /\ c[Len(c)] # Newline
    /\ \/ c[Len(c)] \in Punct
       \/ /\ \A j \in 1..Len(c) : c[j] \notin Boundary
          /\ \E i \in 1..Len(pieces) :
                /\ Strip(pieces[i]) = c
                /\ pieces[i][Len(pieces[i])] = Newline

\* C9 amended: every chunk the chunker returns (and so every chunk enqueued
\* before the final flush) ends with '.', '!' or '?', or is a line that a
\* newline ended in the buffer; the newline is trimmed, so such a chunk
\* holds no boundary character, and no chunk ends with a newline.
C9_ChunksEndAtBoundary ==
    /\ batched =>
          \A k \in 1..Len(batch.chunks) :
              PunctOrTrimmedLine(batch.chunks[k], RawPieces(text))
    /\ \A k \in 1..Len(emitted) :
          PunctOrTrimmedLine(emitted[k], RawPieces(SubSeq(text, 1, pos)))

\* a line chunk without boundary character next to a punctuated chunk
C9_Witness ==
    /\ batched
    /\ pos = Len(text)
    /\ Len(emitted) = 2
    /\ emitted = batch.chunks
    /\ \E k \in 1..2 : ~EndsWithBoundary(emitted[k])
    /\ \E k \in 1..2 : EndsWithBoundary(emitted[k])

\* the positions of s that hold a character of the set cs
Positions(s, cs) == {i \in 1..Len(s) : s[i] \in cs}

\* C20: the remainder split_into_speakable_chunks returns holds no '.',
\* '!', '?' and no newline; so after every token the producer's buffer
\* holds none either, and every sentence-ending character received so far
\* is in a chunk that was emitted.
C20_RemainderHasNoBoundary ==
    /\ batched => Positions(batch.remainder, Boundary) = {}
    /\ Positions(sbuf, Boundary) = {}
    /\ Cardinality(Positions(Concat(emitted), Punct))
         = Cardinality(Positions(SubSeq(text, 1, pos), Punct))

\* a text with a newline and sentence punctuation, all of it fed, some of
\* it left in the buffer after the last boundary
C20_Witness ==
    /\ batched
    /\ pos = Len(text)
    /\ Positions(text, {Newline}) # {}
    /\ Positions(text, Punct) # {}
    /\ batch.remainder # <<>>
    /\ sbuf # <<>>
    /\ emitted # <<>>

(***************************************************************************)
(* Properties of the streaming pipeline (checked under Spec or FairSpec).  *)
(***************************************************************************)
\* ids of the chunks a run can enqueue: the first input is a prompt, every
\* later one a token that completes a chunk or a prompt whose turn ends with
\* a flush
ChunkIds == 1..(MaxInputs - 1)

Holding(pc, at, item) == IF pc = at /\ ~IsNone(item) THEN <<item.id>> ELSE <<>>

NotFailed(i) == i \notin failed

\* C1: audio is played in the order the chunks were enqueued, one buffer at
\* a time: what has been played, then what is being played (or was in
\* audio_player's hand when sd.play raised), then what waits in audio_q, in
\* tts_worker and in tts_q, is at every moment the sequence of enqueued
\* chunks without those whose synthesis failed.
C1_PlaybackInEnqueueOrder ==
    played \o Holding(ppc, "play", paudio) \o Holding(ppc, "raised", paudio)
           \o Ids(audio_q)
           \o Holding(wpc, "got", wtext) \o Ids(tts_q)
        = SelectSeq(Ids(enq), NotFailed)

\* three chunks, the second failed, the first and the third played
C1_Witness == played = <<1, 3>> /\ failed = {2}

\* C2: once main() has ended after an interruption, the sentinel has been
\* put on tts_q.
C2_SentinelOnEveryInterrupt ==
    mpc \in {"returned", "raised"} => NoneText \in Range(enq)

\* C3: when the program exits, every chunk that was in tts_q and every
\* audio buffer that was in audio_q when the sentinel was enqueued has been
\* played to completion (or its synthesis failed).
C3_QueuedWorkDrainedBeforeExit ==
    mpc = "returned" => atSentinel \subseteq (Range(played) \cup failed)

NoneCount(q) == Cardinality({i \in 1..Len(q) : IsNone(q[i])})

C4_SentinelOrder ==
    /\ NoneAudio \in Range(aenq) =>
          /\ wpc = "stopped"
          /\ aenq[Len(aenq)] = NoneAudio
          /\ NoneCount(aenq) = 1
          /\ NoneText \in Range(enq)
          /\ NoneText \notin Range(tts_q)
    /\ wpc = "got" /\ IsNone(wtext) => NoneText \in Range(enq)
    /\ wpc = "stopped" => NoneAudio \in Range(aenq)
    /\ ppc = "stopped" =>
          /\ NoneAudio \in Range(aenq)
          /\ NoneAudio \notin Range(audio_q)
          /\ IsNone(paudio)

WorkerOver == wpc = "stopped" \/ ~alive

PlayerOver == ppc \in {"stopped", "raised"} \/ ~alive

\* C4: the sentinel goes producer -> tts_worker -> audio_player: it is on
\* audio_q only once tts_worker has taken it from tts_q, as the last item
\* tts_worker ever puts there, after which tts_worker has stopped;
\* audio_player reaches its break only by taking it from audio_q; and once
\* the sentinel is on tts_q both workers eventually stop (each reaches its
\* break, the player's sd.play raises, or the process ends under them).
C4_SentinelPropagates ==
    /\ []C4_SentinelOrder
    /\ (NoneText \in Range(enq)) ~> (WorkerOver /\ PlayerOver)

\* both workers stopped by the sentinel after audio was played
C4_Witness ==
    /\ alive
    /\ wpc = "stopped"
    /\ ppc = "stopped"
    /\ Len(played) >= 2

\* every chunk enqueued so far has been dealt with: its synthesis failed,
\* or its audio was played, or, audio_player having died of an exception
\* of sd.play, its audio was put on audio_q
AllChunksHandled ==
    \A i \in Range(Ids(enq)) :
        \/ i \in failed
        \/ i \in Range(played)
        \/ ppc = "raised" /\ \E k \in 1..Len(aenq) : aenq[k].id = i

\* C5: a synthesis failure stops nothing: the step in which tts_worker
\* fails on a chunk puts nothing on audio_q and leaves tts_worker at its
\* next tts_q.get(), the player and main() as they were; and as long as
\* the process runs, from every moment after a failure on, every chunk
\* enqueued by then is dequeued and synthesized, and, unless its own
\* synthesis fails, played, or put on audio_q when audio_player has died
\* of an exception of sd.play.
C5_FailureSkipsOneChunk ==
    /\ [][failed' # failed =>
            /\ wpc' = "get"
            /\ audio_q' = audio_q
            /\ aenq' = aenq
            /\ tts_q' = tts_q
            /\ <<mpc, ppc, alive>>' = <<mpc, ppc, alive>>]_vars
    /\ (failed # {}) ~> (~alive \/ AllChunksHandled)

\* the first chunk failed, a later one was synthesized and played
C5_Witness == 1 \in failed /\ \E i \in ChunkIds : i > 1 /\ i \in Range(played)

\* C6: the step that ends a turn's token stream puts the trimmed leftover
\* of the buffer on tts_q, as the last chunk of the turn, when it is not
\* empty, and puts nothing otherwise.
C6_RemainderFlushed ==
    [][(mpc = "stream" /\ mpc' = "input" /\ Len(messages') > Len(messages)) =>
          IF Strip(buffer) # <<>>
          THEN /\ enq' = Append(enq, TextItem(Len(enq) + 1, Strip(buffer), TRUE))
               /\ tts_q' = Append(tts_q, enq'[Len(enq')])
          ELSE enq' = enq /\ tts_q' = tts_q]_vars

\* a turn ended with a sentence chunk and then a flushed leftover
C6_Witness ==
    /\ mpc = "input"
    /\ Len(enq) = 2
    /\ ~enq[1].flush
    /\ enq[2].flush

\* the audio buffers tts_worker has put on audio_q, in order
SynthesizedAudio == SelectSeq(aenq, LAMBDA x : ~IsNone(x))

\* the concatenation, in the order of yielding, of n yielded segments
AllSegments(n) == [i \in 1..n |-> i]

\* C15: the audio tts_worker produces for a chunk is the concatenation, in
\* the order of yielding, of all the segments the engine yielded for it.
C15_AllSegmentsConcatenated ==
    wyield > 0 =>
        SynthesizedAudio[Len(SynthesizedAudio)].segs = AllSegments(wyield)

\* the number of messages of a role in the history
CountRole(msgs, role) ==
    Cardinality({i \in 1..Len(msgs) : msgs[i].role = role})

\* C16: when the chat backend fails in a turn, before or in the middle of
\* the stream, the error is printed, the history is left as it was, ending
\* with the user's message of that turn (no assistant message for the
\* turn), nothing more is queued for speech, and main() is back at the
\* prompt instead of calling the backend again; so answered and failed
\* turns together never outnumber the prompts.
C16_FailedTurnLeavesNoReply ==
    [][/\ llm_errors' # llm_errors =>
             /\ llm_errors' = llm_errors + 1
             /\ mpc \in {"create", "stream"}
             /\ mpc' = "input"
             /\ messages' = messages
             /\ messages[Len(messages)].role = "user"
             /\ enq' = enq
       /\ CountRole(messages', "assistant") + llm_errors'
             <= CountRole(messages', "user")]_vars

\* a turn failed in the middle of its stream, after a sentence of it was
\* queued, and the turn after it was answered (with an empty reply): the
\* history holds the two prompts and the one reply
C16_Witness ==
    /\ llm_errors = 1
    /\ Len(messages) = 3
    /\ messages[1].role = "user"
    /\ messages[2].role = "user"
    /\ messages[3].role = "assistant"
    /\ messages[3].content = <<>>
    /\ Len(enq) >= 1

\* the audio_player thread has ended
PlayerEnded == ppc \in {"stopped", "raised"}

\* C18: audio_player stops only after main() has put the sentinel on tts_q
\* and tts_worker has passed it on.  What tts_worker puts on audio_q for a
\* synthesized chunk is never None: the only None there is the one it puts
\* when it leaves its loop, so when the player has stopped it has played
\* every audio buffer that was ever queued, in order.
C18_PlayerStopsOnlyOnSentinel ==
    /\ NoneCount(aenq) = (IF wpc = "stopped" THEN 1 ELSE 0)
    /\ \A i \in 1..Len(aenq) : IsNone(aenq[i]) => i = Len(aenq)
    /\ PlayerEnded =>
          /\ NoneText \in Range(enq)
          /\ wpc = "stopped"
          /\ played = Ids(aenq)

(***************************************************************************)
(* Properties of the web server (checked under ServerSpec).                *)
(***************************************************************************)
InEngine == {r \in Requests : rpc[r] = "engine"}

\* C10: at most one request is inside the engine invocation at any time,
\* whatever the languages of the requests, and it is the one holding
\* tts_lock.
C10_EngineCallsExclusive ==
    /\ Cardinality(InEngine) <= 1
    /\ \A r \in InEngine : tts_lock = r

\* a request for one language is in the engine while a request for the
\* other language, its pipeline ready, waits for the lock
C10_Witness ==
    \E r1, r2 \in Requests :
        /\ rpc[r1] = "engine"
        /\ rpc[r2] = "acquire"
        /\ rlang[r1] # rlang[r2]

\* the instances constructed for language l, in order of construction
InstancesOf(l) == {i \in 1..Len(built) : built[i] = l}

\* C11: over any interleaving of synthesize_audio requests, at most one
\* KPipeline is ever constructed for each language code.
C11_PipelineBuiltOncePerLanguage ==
    \A l \in Langs : Cardinality(InstancesOf(l)) <= 1

\* the requests that ended with the synthesis-failed error
FailedRequests == {r \in Requests : rresult[r] = "SynthesisFailed"}

\* the instances request r evicted from the cache
Evictions(r) == {k \in 1..Len(revict[r]) : revict[r][k] # 0}

\* C12 as stated: a request whose two attempts both fail ends with the
\* synthesis-failed error and has evicted a cached pipeline exactly once.
C12_EvictedExactlyOnce ==
    \A r \in FailedRequests : Cardinality(Evictions(r)) = 1

\* no other request for the language of r has entered synthesize_audio
AloneOnLanguage(r) == \A o \in Requests \ {r} : rlang[o] # rlang[r]

\* C12, amended: a request whose two attempts both fail ends with the
\* synthesis-failed error after two engine calls and two pop() calls, one
\* after each failed attempt; with no other request for that language it
\* evicts two distinct instances, the one each attempt ran on, and leaves
\* the cache without a pipeline for the language.
C12_EvictedOncePerFailedAttempt ==
    \A r \in FailedRequests :
        /\ rpc[r] = "done"
        /\ Len(rcalls[r]) = MaxAttempts
        /\ Len(revict[r]) = MaxAttempts
        /\ AloneOnLanguage(r) =>
              /\ revict[r] = rcalls[r]
              /\ revict[r][1] # 0
              /\ revict[r][2] # 0
              /\ revict[r][1] # revict[r][2]
              /\ pipelines[rlang[r]] = 0

\* a request failed twice and evicted instance 1, then the instance 2 its
\* retry had constructed
C12_Witness ==
    \E r \in FailedRequests :
        /\ revict[r] = <<1, 2>>
        /\ rcalls[r] = <<1, 2>>
        /\ pipelines[rlang[r]] = 0

\* C13: a request makes at most two engine calls; the second one runs on
\* an instance other than the one that failed, constructed after that
\* failure, which was evicted first; a request that failed twice ends with
\* the synthesis-failed error.
C13_RetryOnceOnFreshPipeline ==
    \A r \in Requests :
        /\ Len(rcalls[r]) <= 2
        /\ Len(rcalls[r]) = 2 =>
              /\ Len(revict[r]) >= 1
              /\ rcalls[r][2] # rcalls[r][1]
              /\ rcalls[r][2] > rfailat[r]
        /\ Len(revict[r]) = 2 => rresult[r] = "SynthesisFailed"

\* the requests called with a voice name that is not in the catalog: a
\* name was given (not None, not empty) and, read as get_voice_info reads
\* it, without the whitespace around it, it is no key of voice_catalog
UnknownVoiceRequests ==
    {r \in Requests : /\ rinput[r].voice_name # <<>>
                      /\ Strip(rinput[r].voice_name) \notin CatalogVoices}

\* C14: a request whose voice is not in the catalog ends at once with the
\* unknown-voice error, whatever its text: it never looks up, constructs
\* or stores a pipeline, never calls the engine, and no catalog voice is
\* put in the place of the unknown one.
C14_UnknownVoiceRejectedFirst ==
    \A r \in UnknownVoiceRequests :
        /\ rpc[r] = "done"
        /\ rresult[r] = "UnknownVoice"
        /\ rvoice[r] = <<>>
        /\ rlang[r] = ""
        /\ rpipe[r] = 0
        /\ rcalls[r] = <<>>
        /\ revict[r] = <<>>

\* one request with an unknown voice and a text, one with an unknown voice
\* and no text: both ended with the unknown-voice error
C14_Witness ==
    \E r1, r2 \in UnknownVoiceRequests :
        /\ rinput[r1].text # <<>>
        /\ rinput[r2].text = <<>>
        /\ rresult[r1] = "UnknownVoice"
        /\ rresult[r2] = "UnknownVoice"

\* the instances that requests other than r have evicted so far
EvictedByOthers(r) ==
    UNION {{revict[o][k] : k \in 1..Len(revict[o])} : o \in Requests \ {r}}
      \ {0}

\* C19: in any interleaving of concurrent requests, an engine call never
\* starts on an instance that another request has already evicted, and a
\* pop() after a failure removes nothing but an instance the failing
\* request itself ran the engine on.
C19_EvictionsStayPrivate ==
    [][\A r \in Requests :
          /\ rcalls'[r] # rcalls[r] => rpipe[r] \notin EvictedByOthers(r)
          /\ revict'[r] # revict[r] =>
                \/ pipelines[rlang[r]] = 0
                \/ \E k \in 1..Len(rcalls[r]) :
                       rcalls[r][k] = pipelines[rlang[r]]]_vars

(***************************************************************************)
(* Properties of POST /api/chat (checked under ChatSpec).                  *)
(***************************************************************************)
\* the request input was bad: no messages, or a voice not in the catalog
BadRequestInput ==
    \/ ~cin.messages
    \/ ResolveVoice(cin.voice) \notin CatalogVoices

\* C17: a chat request is answered 400 only when its input was bad (no
\* messages, unknown voice), 503 only when no backend model is available,
\* and 500 for every other failure (chat backend error, synthesis
\* failure); without a failure it is answered 200.
C17_StatusCodes ==
    cpc = "done" =>
        /\ cresp.status \in {200, 400, 503, 500}
        /\ cresp.status = 400 => BadRequestInput
        /\ cresp.status = 503 => cin.model = "" /\ ~cmodels
        /\ cresp.error \in {"BackendError", "SynthesisFailed",
                             "ConstructFailed", "Unhandled"} =>
              cresp.status = 500
        /\ cresp.status = 200 <=> cresp.error = "none"
=============================================================================
